---- MODULE Spec2Model ----
(***************************************************************************)
(* Model of ZOOptSearch (python/ray/tune/suggest/zoopt.py): the adapter    *)
(* between the tuning orchestrator and a zoopt optimizer.  The state is    *)
(* the adapter's fields; there is one action per public method.  The       *)
(* wrapped optimizer is an external library: it is modelled as a           *)
(* deterministic test double whose complete call may raise.                *)
(***************************************************************************)
EXTENDS Integers, Sequences, FiniteSets, TLC

\* ------------------------------------------------------------------ bounds
MaxExtra     == 0    \* Solution objects allocated beyond the optimizer's budget
MaxBest      == 1    \* entries appended to best_solution_list in one behaviour

\* ------------------------------------------------------------------ inputs
\* Trial identifiers are opaque str/int values.  1 and "1" are different
\* dictionary keys with the same str().
TrialIds == { [type |-> "int", repr |-> "1"],
              [type |-> "str", repr |-> "1"],
              [type |-> "str", repr |-> "t2"] }
NoTrial  == [type |-> "none", repr |-> ""]

Metric    == "episode_reward_mean"
OtherKey  == "training_iteration"
RawValues == {2}
Modes     == {"min", "max"}
Caps      == {1, 2}            \* values of max_concurrent
Budgets   == {2}               \* values of budget
CapBudgets == {3}              \* values of budget where the cap is studied
Paths     == {"ckpt"}

\* A result is None or a dict; d is the dict's content.
EmptyDict  == [k \in {} |-> 0]
NoneResult == [isNone |-> TRUE, d |-> EmptyDict]
Dict(keys, v) == [isNone |-> FALSE, d |-> [k \in keys |-> v]]
Results ==
    {NoneResult, Dict({}, 0), Dict({OtherKey}, 1)} \cup
    { Dict({Metric}, v) : v \in RawValues }

PartialResults == { Dict({Metric}, v) : v \in RawValues }

\* ------------------------------------------------------------ optimizer
\* Solution objects: id is the object's identity (0: None), x its coordinates.
NoSolution == [id |-> 0, x |-> <<>>]

\* The optimizer keeps its budget, how many candidates it issued and the
\* best (lowest) score it was given; hasBest is FALSE before the first score.
NewOptimizer(b) == [budget |-> b, issued |-> 0, hasBest |-> FALSE, best |-> 0]

\* optimizer.suggest(): the next candidate is a function of the optimizer's
\* whole state; None once the budget is used up.
OptSuggestX(o) == <<o.issued + 1, IF o.hasBest THEN o.best ELSE 0>>

OptCanSuggest(o) == o.issued < o.budget

OptAfterSuggest(o) ==
    IF OptCanSuggest(o) THEN [o EXCEPT !.issued = @ + 1] ELSE o

\* optimizer.complete(solution, score): returns the solution when its score
\* is the best so far, None otherwise.
OptImproves(o, score) == ~o.hasBest \/ score < o.best

OptAfterComplete(o, score) ==
    IF OptImproves(o, score) THEN [o EXCEPT !.hasBest = TRUE, !.best = score]
    ELSE o

OptCompleteReturn(o, sol, score) ==
    IF OptImproves(o, score) THEN sol ELSE NoSolution

\* The candidates the optimizer would hand out from state o on, in order.
RECURSIVE Candidates(_)
Candidates(o) ==
    IF OptCanSuggest(o)
    THEN <<OptSuggestX(o)>> \o Candidates(OptAfterSuggest(o))
    ELSE <<>>

\* ------------------------------------------------------------ helpers
DimKeys == <<"height", "width">>

str(t) == t.repr

\* Variant of Truthy: tests "result is not None" instead of truthiness.
Truthy_not_none(result) == ~result.isNone

Truthy(result) == ~result.isNone /\ DOMAIN result.d # {}

metric_op_of(m) == IF m = "max" THEN -1 ELSE 1

signed_score(op, result) == op * result.d[Metric]

\* dict(zip(self._dim_keys, _x))
zip_dict(keys, xs) ==
    LET n == IF Len(keys) < Len(xs) THEN Len(keys) ELSE Len(xs)
    IN  [k \in {keys[i] : i \in 1..n} |->
            xs[CHOOSE i \in 1..n : keys[i] = k /\ \A j \in (i+1)..n : keys[j] # k]]

deepcopy(cfg) == cfg

put_key(m, k, v) == [j \in DOMAIN m \cup {k} |-> IF j = k THEN v ELSE m[j]]

\* Variant of del_key: the statement is left out.
del_key_skipped(m, k) == m

\* Variant of del_key: removes every key with the same str() as k.
del_key_by_str(m, k) == [j \in {i \in DOMAIN m : i.repr # k.repr} |-> m[j]]

del_key(m, k) == [j \in DOMAIN m \ {k} |-> m[j]]

num_live_trials(m) == Cardinality(DOMAIN m)

\* Variant of no_capacity: compares with > instead of >=.
no_capacity_gt(m, cap) == num_live_trials(m) > cap

no_capacity(m, cap) == num_live_trials(m) >= cap

\* pickle.dump / pickle.load of the optimizer object
NoFile == [kind |-> "absent", data |-> <<>>]
pickle_dump(o) ==
    [kind |-> "pickle", data |-> <<o.budget, o.issued, o.hasBest, o.best>>]
\* Variant of pickle_load: a fresh optimizer with the saved budget.
pickle_load_fresh(f) ==
    [budget |-> f.data[1], issued |-> 0, hasBest |-> FALSE, best |-> 0]

pickle_load(f) ==
    [budget |-> f.data[1], issued |-> f.data[2],
     hasBest |-> f.data[3], best |-> f.data[4]]

\* ------------------------------------------------------------ state
VARIABLES
    max_concurrent,       \* self._max_concurrent
    mode,                 \* the mode the adapter was constructed with
    metric_op,            \* self._metric_op
    live_trial_mapping,   \* self._live_trial_mapping: trial_id -> configuration
    solution_dict,        \* self.solution_dict: str(trial_id) -> Solution
    best_solution_list,   \* self.best_solution_list
    optimizer,            \* self.optimizer (state of the wrapped object)
    files,                \* the checkpoint files
    nextId,               \* identity of the next Solution object
    last,                 \* the last call: arguments, outcome, what it invoked
    track,                \* the calls and history variables this run records
    terminal,             \* history: ids whose on_trial_complete returned
    run,                  \* history: suggestions made since the last on_trial_complete
    fedIds,               \* history: ids of the Solutions a score was fed for
    refed,                \* history: ids of the Solutions fed more than once
    issuedTo,             \* history: trial_id -> Solution its last suggest recorded
    savedOpt              \* history: optimizer state at the last save per path

vars == <<max_concurrent, mode, metric_op, live_trial_mapping, solution_dict,
          best_solution_list, optimizer, files, nextId, last, track, terminal,
          run, fedIds, refed, issuedTo, savedOpt>>

adapter == <<live_trial_mapping, solution_dict, best_solution_list>>

Config == <<max_concurrent, mode, metric_op, track>>

NoCall ==
    [op |-> "init", tid |-> NoTrial, result |-> NoneResult,
     ret |-> "ok", cfg |-> EmptyDict, optSuggest |-> FALSE,
     optComplete |-> FALSE, raised |-> FALSE, processed |-> FALSE,
     handle |-> NoSolution, score |-> 0, wasLive |-> FALSE, preN |-> 0,
     path |-> ""]

Call(op, tid) ==
    [NoCall EXCEPT !.op = op, !.tid = tid,
                   !.wasLive = tid \in DOMAIN live_trial_mapping,
                   !.preN = num_live_trials(live_trial_mapping)]

\* What last holds after a call of op: r when the run records op's calls.
\* Its arguments are kept only when the run records arguments.
Rec(op, r) ==
    IF op \notin track THEN [NoCall EXCEPT !.op = op]
    ELSE IF "args" \in track THEN r
    ELSE [r EXCEPT !.tid = NoTrial, !.result = NoneResult, !.cfg = EmptyDict,
                   !.handle = NoSolution, !.score = 0, !.wasLive = FALSE]

NoSaved == [valid |-> FALSE, opt |-> NewOptimizer(0)]

\* The suggestions of a run: the identifiers they were for, the
\* configurations they returned, and how many they are.
NoRun == [ids |-> {}, cfgs |-> {}, n |-> 0]
RunPlus(r, tid, cfg) ==
    [ids |-> r.ids \cup {tid}, cfgs |-> r.cfgs \cup {cfg}, n |-> r.n + 1]

\* __init__
InitAdapter(budgets) ==
    /\ max_concurrent \in Caps
    /\ mode \in Modes
    /\ metric_op = metric_op_of(mode)
    /\ live_trial_mapping = EmptyDict
    /\ solution_dict = EmptyDict
    /\ best_solution_list = <<>>
    /\ optimizer \in {NewOptimizer(b) : b \in budgets}
    /\ files = [p \in Paths |-> NoFile]
    /\ nextId = 1
    /\ last = NoCall
    /\ terminal = {}
    /\ run = NoRun
    /\ fedIds = {}
    /\ refed = {}
    /\ issuedTo = EmptyDict
    /\ savedOpt = [p \in Paths |-> NoSaved]

Calls == {"suggest", "on_trial_result", "on_trial_complete", "save", "restore"}

\* suggest(trial_id)
Suggest(tid) ==
    /\ UNCHANGED <<Config, best_solution_list, files, terminal, fedIds, refed,
                   savedOpt>>
    /\ IF no_capacity(live_trial_mapping, max_concurrent)
       THEN /\ last' = Rec("suggest", [Call("suggest", tid) EXCEPT !.ret = "None"])
            /\ UNCHANGED <<live_trial_mapping, solution_dict, optimizer, nextId,
                           run, issuedTo>>
       ELSE IF OptCanSuggest(optimizer)
       THEN LET _solution == [id |-> nextId, x |-> OptSuggestX(optimizer)]
                new_trial == zip_dict(DimKeys, _solution.x)
            IN  /\ nextId <= optimizer.budget + MaxExtra
                /\ optimizer' = OptAfterSuggest(optimizer)
                /\ nextId' = nextId + 1
                /\ solution_dict' = put_key(solution_dict, str(tid), _solution)
                /\ live_trial_mapping' = put_key(live_trial_mapping, tid, new_trial)
                /\ last' = Rec("suggest", [Call("suggest", tid) EXCEPT
                               !.ret = "config", !.cfg = deepcopy(new_trial),
                               !.optSuggest = TRUE, !.handle = _solution])
                /\ run' = IF "run" \in track
                          THEN RunPlus(run, tid, new_trial)
                          ELSE run
                /\ issuedTo' = IF "handles" \in track
                               THEN put_key(issuedTo, tid, _solution)
                               ELSE issuedTo
       ELSE /\ optimizer' = OptAfterSuggest(optimizer)
            /\ last' = Rec("suggest", [Call("suggest", tid) EXCEPT
                           !.ret = "None", !.optSuggest = TRUE])
            /\ UNCHANGED <<live_trial_mapping, solution_dict, nextId, run, issuedTo>>

\* on_trial_result(trial_id, result)
OnTrialResult(tid, result) ==
    /\ last' = Rec("on_trial_result", Call("on_trial_result", tid))
    /\ UNCHANGED <<Config, adapter, optimizer, files, nextId, terminal,
                   run, fedIds, refed, issuedTo, savedOpt>>

\* _process_result(trial_id, result, early_terminated): returns in both
\* branches without touching the adapter; TRUE records that it was called.
process_result(early_terminated, use_early_stopped) ==
    IF early_terminated /\ use_early_stopped = FALSE THEN TRUE ELSE TRUE

\* How the feedback block of on_trial_complete ends: "skip" (falsy result),
\* an error raised inside it, or "ok".
feedback_outcome(result, key, sd, raises) ==
    IF ~Truthy(result) THEN "skip"
    ELSE IF key \notin DOMAIN sd THEN "KeyError"
    ELSE IF Metric \notin DOMAIN result.d THEN "KeyError"
    ELSE IF raises THEN "OptimizerError"
    ELSE "ok"

\* Variant of reaches_del: the del statement in a finally clause.
reaches_del_finally(fb) == TRUE

\* The del statement after the feedback block runs unless the block raised.
reaches_del(fb) == fb \in {"skip", "ok"}

\* del self._live_trial_mapping[trial_id]: raises when the key is missing.
del_outcome(m, k) == IF k \in DOMAIN m THEN "ok" ELSE "KeyError"

\* on_trial_complete(trial_id, result, error, early_terminated); raises is
\* whether the optimizer's complete call raises, use_early_stopped the base
\* class's setting.
OnTrialComplete(tid, result, error, early_terminated, raises, use_early_stopped) ==
    LET fb   == feedback_outcome(result, str(tid), solution_dict, raises)
        fed  == fb = "ok"
        sol  == IF fb \in {"ok", "OptimizerError"}
                THEN solution_dict[str(tid)] ELSE NoSolution
        sc   == IF fb \in {"ok", "OptimizerError"}
                THEN signed_score(metric_op, result) ELSE 0
        best == IF fed THEN OptCompleteReturn(optimizer, sol, sc) ELSE NoSolution
        ret  == IF ~reaches_del(fb) THEN fb
                ELSE del_outcome(live_trial_mapping, tid)
    IN  /\ raises => fb = "OptimizerError"
        /\ best # NoSolution => Len(best_solution_list) < MaxBest
        /\ optimizer' = IF fed THEN OptAfterComplete(optimizer, sc) ELSE optimizer
        /\ best_solution_list' =
               IF best # NoSolution
               THEN Append(best_solution_list, best) ELSE best_solution_list
        /\ live_trial_mapping' =
               IF ret = "ok" THEN del_key(live_trial_mapping, tid)
               ELSE live_trial_mapping
        /\ last' = Rec("on_trial_complete",
                       [Call("on_trial_complete", tid) EXCEPT
                           !.result = result,
                           !.ret = ret,
                           !.optComplete = fb \in {"ok", "OptimizerError"},
                           !.raised = raises,
                           !.processed = fed /\ process_result(
                                             early_terminated, use_early_stopped),
                           !.handle = sol, !.score = sc])
        /\ fedIds' = IF fed /\ "fed" \in track THEN fedIds \cup {sol.id} ELSE fedIds
        /\ refed' = IF fed /\ "fed" \in track /\ sol.id \in fedIds
                    THEN refed \cup {sol.id} ELSE refed
        /\ terminal' = IF ret = "ok" /\ "terminal" \in track
                       THEN terminal \cup {tid} ELSE terminal
        /\ run' = NoRun
        /\ UNCHANGED <<Config, solution_dict, files, nextId, issuedTo, savedOpt>>

\* save(checkpoint_dir)
Save(path) ==
    /\ files' = [files EXCEPT ![path] = pickle_dump(optimizer)]
    /\ savedOpt' = [savedOpt EXCEPT ![path] = [valid |-> TRUE, opt |-> optimizer]]
    /\ last' = Rec("save", [Call("save", NoTrial) EXCEPT !.path = path])
    /\ UNCHANGED <<Config, adapter, optimizer, nextId, terminal, run, fedIds,
                   refed, issuedTo>>

\* restore(checkpoint_dir)
Restore(path) ==
    LET f   == files[path]
        ret == IF f.kind = "absent" THEN "FileNotFoundError" ELSE "ok"
    IN  /\ optimizer' = IF ret = "ok" THEN pickle_load(f) ELSE optimizer
        /\ last' = Rec("restore", [Call("restore", NoTrial) EXCEPT
                                       !.path = path, !.ret = ret])
        /\ UNCHANGED <<Config, adapter, files, nextId, terminal, run,
                       fedIds, refed, issuedTo, savedOpt>>

\* The orchestrator's calls.  Flags are the (error, early_terminated,
\* use_early_stopped) combinations it passes to on_trial_complete.
Flags == { <<FALSE, FALSE, TRUE>>, <<TRUE, TRUE, FALSE>> }

TrialCall ==
    \/ \E tid \in TrialIds : Suggest(tid)
    \/ \E tid \in TrialIds, result \in PartialResults : OnTrialResult(tid, result)
    \/ \E tid \in TrialIds, result \in Results, f \in Flags, raises \in BOOLEAN :
          OnTrialComplete(tid, result, f[1], f[2], raises, f[3])

CheckpointCall ==
    \/ \E path \in Paths : Save(path)
    \/ \E path \in Paths : Restore(path)

Next == TrialCall \/ CheckpointCall

\* The trial lifecycle, every call recorded, with the histories of the
\* identifiers and of the scores fed.
Init == InitAdapter(Budgets)
        /\ track = Calls \cup {"args", "terminal", "fed", "handles"}
Spec == Init /\ [][TrialCall]_vars

\* The trial lifecycle with an optimizer that can place three trials; the
\* suggest calls and the runs of suggestions recorded.
InitCap == InitAdapter(CapBudgets) /\ track = {"suggest", "run"}
SpecCap == InitCap /\ [][TrialCall]_vars

\* All five operations; the save and restore calls recorded.
InitPersist == InitAdapter(Budgets) /\ track = {"save", "restore"}
SpecPersist == InitPersist /\ [][Next]_vars
\* ================================================================ claims
Live      == DOMAIN live_trial_mapping
NumLive   == num_live_trials(live_trial_mapping)
Completed == last.op = "on_trial_complete"
Errors    == {"KeyError", "OptimizerError"}
HasMetric(result) == Metric \in DOMAIN result.d
\* A result is absent when it is None or an empty mapping, present otherwise.
Absent(result)  == result.isNone \/ DOMAIN result.d = {}
Present(result) == ~Absent(result)

\* ---------------------------------------------------------------- C1
\* C1 as stated: the live count never exceeds max_concurrent; a suggest
\* called at the cap returns None without calling the optimizer and without
\* changing the adapter; and after max_concurrent suggest calls that each
\* returned a distinct configuration, with no completion in between, the next
\* suggest returns None.
C1_AsStated ==
    [][ /\ num_live_trials(live_trial_mapping') <= max_concurrent'
        /\ (last'.op = "suggest" /\ no_capacity(live_trial_mapping, max_concurrent))
               => /\ last'.ret = "None"
                  /\ ~last'.optSuggest
                  /\ UNCHANGED <<adapter, optimizer>>
        /\ (last'.op = "suggest" /\ run.n = max_concurrent
                /\ Cardinality(run.cfgs) = max_concurrent)
               => last'.ret = "None" ]_vars

\* C1 amended: as C1, the last part for max_concurrent suggest calls that
\* returned configurations for pairwise distinct trial identifiers.
C1_CapAmended ==
    [][ /\ num_live_trials(live_trial_mapping') <= max_concurrent'
        /\ (last'.op = "suggest" /\ no_capacity(live_trial_mapping, max_concurrent))
               => /\ last'.ret = "None"
                  /\ ~last'.optSuggest
                  /\ UNCHANGED <<adapter, optimizer>>
        /\ (last'.op = "suggest"
                /\ Cardinality(run.ids) >= max_concurrent)
               => last'.ret = "None" ]_vars

\* A suggest refused at a cap of 2, after two suggestions for two identifiers.
C1_Witness ==
    /\ last.op = "suggest" /\ last.ret = "None" /\ ~last.optSuggest
    /\ max_concurrent = 2 /\ last.preN = 2 /\ NumLive = 2
    /\ Cardinality(run.ids) = 2

\* ---------------------------------------------------------------- C2
\* C2 as stated: a completion with a present result for a live trial passes
\* metric_op * result[metric] to the optimizer, metric_op being +1 for mode
\* "min" and -1 for "max", together with the Solution that suggest recorded
\* for that trial_id.
C2_AsStated ==
    (Completed /\ last.wasLive /\ last.optComplete)
        => /\ last.score = metric_op * last.result.d[Metric]
           /\ metric_op = (IF mode = "max" THEN -1 ELSE 1)
           /\ last.handle = issuedTo[last.tid]

C4_EmptyResult ==
    [][ (last'.op = "on_trial_complete" /\ last'.tid \in Live
            /\ Absent(last'.result))
        => /\ ~last'.optComplete
           /\ ~last'.processed
           /\ optimizer' = optimizer
           /\ best_solution_list' = best_solution_list
           /\ last'.ret = "ok"
           /\ live_trial_mapping' = del_key(live_trial_mapping, last'.tid)
           /\ last'.tid \notin DOMAIN live_trial_mapping'
           /\ num_live_trials(live_trial_mapping') = NumLive - 1 ]_vars

\* An empty mapping reported for a live trial, with a best-solution log that
\* already has an entry.
C4_Witness ==
    /\ Completed /\ last.wasLive /\ last.result = Dict({}, 0)
    /\ last.ret = "ok" /\ NumLive = last.preN - 1
    /\ best_solution_list # <<>>

\* ---------------------------------------------------------------- C5
\* C5 as stated: after on_trial_complete returns for a live trial the adapter
\* holds neither a Solution nor a configuration for it, and the keys with a
\* recorded Solution are always those of the live trials.
C5_AsStated ==
    /\ (Completed /\ last.wasLive /\ last.ret = "ok")
          => /\ last.tid \notin Live
             /\ str(last.tid) \notin DOMAIN solution_dict
    /\ DOMAIN solution_dict = {str(t) : t \in Live}

\* ---------------------------------------------------------------- C6
\* C6 as stated: an identifier whose on_trial_complete has returned is never
\* in the live mapping again.
C6_AsStated == terminal \cap Live = {}

\* C6 amended: an identifier enters the live mapping only by a suggest for it
\* that returns a configuration (also when it was completed before: the
\* adapter does not refuse a reissued identifier), and leaves it only by an
\* on_trial_complete for it that returns.
C6_LifecycleAmended ==
    [][ \A t \in TrialIds :
          /\ (t \notin Live /\ t \in DOMAIN live_trial_mapping')
                => /\ last'.op = "suggest"
                   /\ last'.tid = t
                   /\ last'.ret = "config"
          /\ (t \in Live /\ t \notin DOMAIN live_trial_mapping')
                => /\ last'.op = "on_trial_complete"
                   /\ last'.tid = t
                   /\ last'.ret = "ok"
                   /\ t \in terminal' ]_vars

\* An identifier completed before is live again after a suggest for it.
C6_Witness ==
    /\ last.op = "suggest" /\ last.ret = "config"
    /\ last.tid \in terminal /\ last.tid \in Live

\* ---------------------------------------------------------------- C7
\* C7 as stated: on_trial_complete for an identifier that is not live always
\* fails with a lookup error and leaves the live count unchanged.
C7_AsStated ==
    (Completed /\ ~last.wasLive)
        => /\ last.ret = "KeyError"
           /\ NumLive = last.preN

\* ---------------------------------------------------------------- C9
\* C9 as stated: no Solution is fed to the optimizer more than once, the
\* optimizer's complete is only called for a live trial, and a call that
\* ends in a lookup error has fed nothing.
C9_AsStated ==
    /\ refed = {}
    /\ (Completed /\ last.optComplete) => last.wasLive
    /\ (Completed /\ last.ret = "KeyError") => ~last.optComplete

\* ---------------------------------------------------------------- C10
\* C10: when the feedback of a completion with a present result for a live
\* trial fails (the result lacks the metric, or the optimizer's complete
\* raises), the error reaches the caller and the trial stays live.
C10_FailureKeepsLive ==
    [][ (last'.op = "on_trial_complete" /\ last'.tid \in Live
            /\ Present(last'.result)
            /\ (~HasMetric(last'.result) \/ last'.raised))
        => /\ last'.ret = (IF HasMetric(last'.result)
                           THEN "OptimizerError" ELSE "KeyError")
           /\ live_trial_mapping' = live_trial_mapping
           /\ last'.tid \in DOMAIN live_trial_mapping'
           /\ num_live_trials(live_trial_mapping') = NumLive ]_vars

\* The optimizer's complete raised for a live trial at a full cap.
C10_Witness ==
    /\ Completed /\ last.wasLive /\ last.raised /\ last.ret = "OptimizerError"
    /\ last.tid \in Live /\ NumLive = last.preN /\ NumLive = max_concurrent

\* ---------------------------------------------------------------- C8
\* C8: a restore that succeeds puts the optimizer in the state it had at the
\* last save to that path, so that it hands out the same candidates from
\* there on, and changes neither the live mapping, nor the solution
\* dictionary, nor the best-solution log.
C8_RoundTrip ==
    [][ (last'.op = "restore" /\ last'.ret = "ok")
        => /\ savedOpt[last'.path].valid
           /\ optimizer' = savedOpt[last'.path].opt
           /\ Candidates(optimizer') = Candidates(savedOpt[last'.path].opt)
           /\ UNCHANGED adapter ]_vars

\* A restore that rolls back an optimizer which has issued candidates and
\* taken a score since the save.
C8_Witness ==
    /\ last.op = "restore" /\ last.ret = "ok"
    /\ optimizer.issued = 0 /\ ~optimizer.hasBest
    /\ nextId > 1 /\ best_solution_list # <<>>
    /\ Live # {}
====
